---- MODULE Spec2Model ----
(***************************************************************************)
(* Model of the media cache of the YouTube extraction API:                 *)
(*   search.py         QueryMatcher (normalisation, fingerprint, cascade)  *)
(*   routes.py         extract_media and search_cache request handlers     *)
(*   telegram_bot.py   TelegramStorage.upload_media / _cache_upload_result *)
(*   telegram_bot_sync.py  TelegramStorageSync.upload_media/_save_to_cache *)
(*   utils.py          validate_query                                      *)
(*                                                                         *)
(* Text is a sequence of one-character strings, so that the regular        *)
(* expressions, lower(), strip(), split() and difflib are computed on the  *)
(* characters as the code computes them.                                   *)
(***************************************************************************)
EXTENDS Integers, Sequences, FiniteSets, TLC

(***************************************************************************)
(* Characters and the str / re primitives used by the code                 *)
(***************************************************************************)
LowerChars == <<"a","b","c","d","e","f","g","h","i","j","k","l","m",
                "n","o","p","q","r","s","t","u","v","w","x","y","z">>

UpperChars == <<"A","B","C","D","E","F","G","H","I","J","K","L","M",
                "N","O","P","Q","R","S","T","U","V","W","X","Y","Z">>

DigitChars == {"0","1","2","3","4","5","6","7","8","9"}

Range(s) == {s[i] : i \in DOMAIN s}

\* LATIN CAPITAL LETTER I WITH DOT ABOVE, a letter, and COMBINING DOT ABOVE,
\* a mark: str.lower() turns the first into "i" followed by the second
CapitalIDot == "U+0130"

\* \w of the re module: letters, digits and the underscore
IsWordChar(c) ==
    c \in Range(LowerChars) \cup Range(UpperChars) \cup DigitChars \cup {"_", CapitalIDot}

\* \s of the re module, and the characters str.strip() / str.split() act on
IsSpace(c) == c \in {" ", "\t", "\n"}

\* str.isalnum() for one character
IsAlnum(c) == c \in Range(LowerChars) \cup Range(UpperChars) \cup DigitChars \cup {CapitalIDot}

\* str.lower() for one character
LowerChar(c) ==
    IF c \in Range(UpperChars)
    THEN LowerChars[CHOOSE i \in DOMAIN UpperChars : UpperChars[i] = c]
    ELSE c

\* str.lower() of a text that holds a character whose lower case is longer
RECURSIVE LowerFull(_)
LowerFull(s) ==
    IF s = <<>> THEN <<>>
    ELSE (IF Head(s) = CapitalIDot THEN <<"i", "U+0307">> ELSE <<LowerChar(Head(s))>>)
         \o LowerFull(Tail(s))

\* str.lower()
Lower(s) ==
    IF CapitalIDot \in Range(s) THEN LowerFull(s)
    ELSE [i \in DOMAIN s |-> LowerChar(s[i])]

\* re.sub(r'[^\w\s-]', ' ', query)
SubSpecial(s) ==
    [i \in DOMAIN s |->
        IF IsWordChar(s[i]) \/ IsSpace(s[i]) \/ s[i] = "-" THEN s[i] ELSE " "]

RECURSIVE LStrip(_)
LStrip(s) ==
    IF s # <<>> /\ IsSpace(Head(s)) THEN LStrip(Tail(s)) ELSE s

RECURSIVE RStrip(_)
RStrip(s) ==
    IF s # <<>> /\ IsSpace(s[Len(s)]) THEN RStrip(SubSeq(s, 1, Len(s) - 1)) ELSE s

\* str.strip()
Strip(s) == RStrip(LStrip(s))

\* re.sub(r'\s+', ' ', query): every run of whitespace becomes one blank
RECURSIVE CollapseSpaces(_)
CollapseSpaces(s) ==
    IF s = <<>> THEN <<>>
    ELSE IF IsSpace(Head(s))
         THEN <<" ">> \o CollapseSpaces(LStrip(s))
         ELSE <<Head(s)>> \o CollapseSpaces(Tail(s))

\* the first word of a text that starts with a non-blank character
RECURSIVE FirstWord(_)
FirstWord(s) ==
    IF s = <<>> \/ IsSpace(Head(s)) THEN <<>>
    ELSE <<Head(s)>> \o FirstWord(Tail(s))

\* str.split(): the list of whitespace-separated words
RECURSIVE Split(_)
Split(s) ==
    LET t == LStrip(s)
        w == FirstWord(t)
    IN  IF t = <<>> THEN <<>>
        ELSE <<w>> \o Split(SubSeq(t, Len(w) + 1, Len(t)))

\* ' '.join(words)
RECURSIVE Join(_)
Join(ws) ==
    IF ws = <<>> THEN <<>>
    ELSE IF Len(ws) = 1 THEN ws[1]
         ELSE ws[1] \o <<" ">> \o Join(Tail(ws))

\* `needle in text`
Contains(text, needle) ==
    \E i \in 0..(Len(text) - Len(needle)) :
        SubSeq(text, i + 1, i + Len(needle)) = needle

(***************************************************************************)
(* search.py: QueryMatcher                                                 *)
(***************************************************************************)
stop_words ==
    { <<"t","h","e">>, <<"a">>, <<"a","n">>, <<"a","n","d">>, <<"o","r">>,
      <<"b","u","t">>, <<"i","n">>, <<"o","n">>, <<"a","t">>, <<"t","o">>,
      <<"f","o","r">>, <<"o","f">>, <<"w","i","t","h">>, <<"b","y">>,
      <<"s","o","n","g">>, <<"m","u","s","i","c">>, <<"v","i","d","e","o">>,
      <<"a","u","d","i","o">>, <<"m","p","3">>, <<"m","p","4">> }

\* [word for word in words if word not in self.stop_words]
RECURSIVE RemoveStopWords(_)
RemoveStopWords(ws) ==
    IF ws = <<>> THEN <<>>
    ELSE (IF Head(ws) \notin stop_words THEN <<Head(ws)>> ELSE <<>>)
         \o RemoveStopWords(Tail(ws))

sanitize_query(query) ==
    LET q1 == SubSpecial(query)
        q2 == CollapseSpaces(q1)
        q3 == Strip(Lower(q2))
        filtered_words == RemoveStopWords(Split(q3))
    IN  IF filtered_words # <<>> THEN Join(filtered_words) ELSE q3

\* hashlib.md5(text.encode()).hexdigest(): a digest is determined by the text
\* it was computed from, and distinct texts have distinct digests
md5(text) == [digest_of |-> text]

generate_query_hash(query) == md5(sanitize_query(query))

(***************************************************************************)
(* difflib.SequenceMatcher(None, a, b): no junk, and the automatic junk    *)
(* heuristic applies only from 200 characters on.  A ratio is kept as the   *)
(* fraction num/den, so that comparisons with 0.9 and 0.7 are exact.        *)
(***************************************************************************)
Frac(n, d) == [num |-> n, den |-> d]

FracGeq(x, y) == x.num * y.den >= y.num * x.den

FracGt(x, y) == x.num * y.den > y.num * x.den

FracEq(x, y) == x.num * y.den = y.num * x.den

\* length of the common run of a and b that starts at a[i] and b[j]
RECURSIVE RunLen(_, _, _, _, _, _)
RunLen(a, b, i, j, ahi, bhi) ==
    IF i <= ahi /\ j <= bhi /\ a[i] = b[j]
    THEN 1 + RunLen(a, b, i + 1, j + 1, ahi, bhi)
    ELSE 0

\* SequenceMatcher.find_longest_match on a[alo..ahi], b[blo..bhi]: the longest
\* block, of those the one starting earliest in a, of those earliest in b
find_longest_match(a, b, alo, ahi, blo, bhi) ==
    LET blocks == { <<i, j, RunLen(a, b, i, j, ahi, bhi)>> :
                        <<i, j>> \in { p \in (alo..ahi) \X (blo..bhi) : a[p[1]] = b[p[2]] } }
        better(x, y) == \/ x[3] > y[3]
                        \/ x[3] = y[3] /\ x[1] < y[1]
                        \/ x[3] = y[3] /\ x[1] = y[1] /\ x[2] <= y[2]
    IN  IF blocks = {} THEN <<alo, blo, 0>>
        ELSE CHOOSE x \in blocks : \A y \in blocks : better(x, y)

\* the sum of the sizes of SequenceMatcher.get_matching_blocks()
RECURSIVE MatchingChars(_, _, _, _, _, _)
MatchingChars(a, b, alo, ahi, blo, bhi) ==
    IF alo > ahi \/ blo > bhi THEN 0
    ELSE LET m == find_longest_match(a, b, alo, ahi, blo, bhi)
         IN  IF m[3] = 0 THEN 0
             ELSE m[3] + MatchingChars(a, b, alo, m[1] - 1, blo, m[2] - 1)
                       + MatchingChars(a, b, m[1] + m[3], ahi, m[2] + m[3], bhi)

\* SequenceMatcher.ratio(): 2.0 * matches / (len(a) + len(b)), 1.0 when both are empty
ratio(a, b) ==
    IF Len(a) + Len(b) = 0 THEN Frac(1, 1)
    ELSE Frac(2 * MatchingChars(a, b, 1, Len(a), 1, Len(b)), Len(a) + Len(b))

(***************************************************************************)
(* list.sort(key=..., reverse=True): descending and stable                  *)
(***************************************************************************)
RECURSIVE InsertDesc(_, _)
InsertDesc(x, sorted) ==
    IF sorted = <<>> THEN <<x>>
    ELSE IF FracGt(x.score, Head(sorted).score)
         THEN <<x>> \o sorted
         ELSE <<Head(sorted)>> \o InsertDesc(x, Tail(sorted))

RECURSIVE SortDesc(_)
SortDesc(items) ==
    IF items = <<>> THEN <<>>
    ELSE InsertDesc(items[Len(items)], SortDesc(SubSeq(items, 1, Len(items) - 1)))

(***************************************************************************)
(* The matching tiers.  rows is the result of TelegramCache.query.all(),    *)
(* in primary-key order.                                                    *)
(***************************************************************************)
\* SimilarRows with `similarity > threshold` in place of `>=`
RECURSIVE SimilarRowsStrict(_, _, _)
SimilarRowsStrict(sanitized_query, rows, threshold) ==
    IF rows = <<>> THEN <<>>
    ELSE LET cache_entry == Head(rows)
             similarity == ratio(sanitized_query, sanitize_query(cache_entry.original_query))
         IN  (IF FracGt(similarity, threshold)
              THEN << [cache_entry |-> cache_entry, score |-> similarity] >>
              ELSE <<>>)
             \o SimilarRowsStrict(sanitized_query, Tail(rows), threshold)

RECURSIVE SimilarRows(_, _, _)
SimilarRows(sanitized_query, rows, threshold) ==
    IF rows = <<>> THEN <<>>
    ELSE LET cache_entry == Head(rows)
             similarity == ratio(sanitized_query, sanitize_query(cache_entry.original_query))
         IN  (IF FracGeq(similarity, threshold)
              THEN << [cache_entry |-> cache_entry, score |-> similarity] >>
              ELSE <<>>)
             \o SimilarRows(sanitized_query, Tail(rows), threshold)

\* find_similar_queries without the sort of line 60: table order is kept
find_similar_queries_unsorted(query, threshold, rows) ==
    SimilarRows(sanitize_query(query), rows, threshold)

find_similar_queries(query, threshold, rows) ==
    SortDesc(SimilarRows(sanitize_query(query), rows, threshold))

\* [word for word in words if len(word) > 2 and word not in self.stop_words]
RECURSIVE KeepKeywords(_)
KeepKeywords(ws) ==
    IF ws = <<>> THEN <<>>
    ELSE (IF Len(Head(ws)) > 2 /\ Head(ws) \notin stop_words THEN <<Head(ws)>> ELSE <<>>)
         \o KeepKeywords(Tail(ws))

extract_keywords(query) == KeepKeywords(Split(sanitize_query(query)))

\* KeywordRows with `len(matches) > min_matches` in place of `>=`
RECURSIVE KeywordRowsStrict(_, _, _)
KeywordRowsStrict(keywords, rows, min_matches) ==
    IF rows = <<>> THEN <<>>
    ELSE LET cache_entry == Head(rows)
             matches == Range(keywords) \cap Range(extract_keywords(cache_entry.original_query))
         IN  (IF Cardinality(matches) > min_matches
              THEN << [cache_entry |-> cache_entry,
                       score |-> Frac(Cardinality(matches), Len(keywords))] >>
              ELSE <<>>)
             \o KeywordRowsStrict(keywords, Tail(rows), min_matches)

RECURSIVE KeywordRows(_, _, _)
KeywordRows(keywords, rows, min_matches) ==
    IF rows = <<>> THEN <<>>
    ELSE LET cache_entry == Head(rows)
             matches == Range(keywords) \cap Range(extract_keywords(cache_entry.original_query))
         IN  (IF Cardinality(matches) >= min_matches
              THEN << [cache_entry |-> cache_entry,
                       score |-> Frac(Cardinality(matches), Len(keywords))] >>
              ELSE <<>>)
             \o KeywordRows(keywords, Tail(rows), min_matches)

match_by_keywords(query, min_matches, rows) ==
    LET keywords == extract_keywords(query)
    IN  IF Len(keywords) < min_matches THEN <<>>
        ELSE SortDesc(KeywordRows(keywords, rows, min_matches))

HighThreshold == Frac(9, 10)

LowThreshold == Frac(7, 10)

MinMatches == 2

None == [match_type |-> "None"]

Match(cache_entry, match_type, confidence) ==
    [cache_entry |-> cache_entry, match_type |-> match_type, confidence |-> confidence]

\* TelegramCache.query.filter_by(query_hash=h).first()
FirstByHash(rows, h) ==
    LET hits == {i \in DOMAIN rows : rows[i].query_hash = h}
    IN  IF hits = {} THEN None
        ELSE rows[CHOOSE i \in hits : \A j \in hits : i <= j]

\* tier 1 of comprehensive_search
ExactTier(query, rows) ==
    LET exact_match == FirstByHash(rows, generate_query_hash(query))
    IN  IF exact_match # None THEN Match(exact_match, "exact", Frac(1, 1)) ELSE None

\* tier 2 of comprehensive_search
HighSimilarityTier(query, rows) ==
    LET similar_queries == find_similar_queries(query, HighThreshold, rows)
    IN  IF similar_queries # <<>>
        THEN Match(similar_queries[1].cache_entry, "high_similarity", similar_queries[1].score)
        ELSE None

\* tier 3 that reports the number of shared keywords as its confidence
KeywordTierMatchCount(query, rows) ==
    LET keyword_matches == match_by_keywords(query, MinMatches, rows)
    IN  IF keyword_matches # <<>>
        THEN Match(keyword_matches[1].cache_entry, "keyword",
                   Frac(keyword_matches[1].score.num, 1))
        ELSE None

\* tier 3 of comprehensive_search
KeywordTier(query, rows) ==
    LET keyword_matches == match_by_keywords(query, MinMatches, rows)
    IN  IF keyword_matches # <<>>
        THEN Match(keyword_matches[1].cache_entry, "keyword", keyword_matches[1].score)
        ELSE None

\* tier 4 that indexes the list of similar rows without looking whether it
\* is empty: on the empty list the lookup ends with an IndexError
LowSimilarityTierUnguarded(query, rows) ==
    LET similar_queries == find_similar_queries(query, LowThreshold, rows)
    IN  IF similar_queries # <<>>
        THEN Match(similar_queries[1].cache_entry, "low_similarity", similar_queries[1].score)
        ELSE [match_type |-> "IndexError"]

\* tier 4 of comprehensive_search
LowSimilarityTier(query, rows) ==
    LET similar_queries == find_similar_queries(query, LowThreshold, rows)
    IN  IF similar_queries # <<>>
        THEN Match(similar_queries[1].cache_entry, "low_similarity", similar_queries[1].score)
        ELSE None

\* comprehensive_search with the similarity scan placed before the hash lookup
comprehensive_search_similarity_first(query, rows) ==
    IF HighSimilarityTier(query, rows) # None THEN HighSimilarityTier(query, rows)
    ELSE IF ExactTier(query, rows) # None THEN ExactTier(query, rows)
    ELSE IF KeywordTier(query, rows) # None THEN KeywordTier(query, rows)
    ELSE LowSimilarityTier(query, rows)

\* comprehensive_search on one unchanging table
comprehensive_search(query, rows) ==
    IF ExactTier(query, rows) # None THEN ExactTier(query, rows)
    ELSE IF HighSimilarityTier(query, rows) # None THEN HighSimilarityTier(query, rows)
    ELSE IF KeywordTier(query, rows) # None THEN KeywordTier(query, rows)
    ELSE LowSimilarityTier(query, rows)

(***************************************************************************)
(* telegram_bot_sync.py: TelegramStorageSync._search_database_cache         *)
(***************************************************************************)
\* text.split(sep)[1] when sep occurs in text, and text.split(sep)[0]
AfterFirst(text, sep) ==
    LET i == CHOOSE k \in 0..(Len(text) - Len(sep)) :
                 /\ SubSeq(text, k + 1, k + Len(sep)) = sep
                 /\ \A j \in 0..(k - 1) : SubSeq(text, j + 1, j + Len(sep)) # sep
    IN  SubSeq(text, i + Len(sep) + 1, Len(text))

BeforeFirst(text, sep) ==
    IF ~Contains(text, sep) THEN text
    ELSE LET i == CHOOSE k \in 0..(Len(text) - Len(sep)) :
                      /\ SubSeq(text, k + 1, k + Len(sep)) = sep
                      /\ \A j \in 0..(k - 1) : SubSeq(text, j + 1, j + Len(sep)) # sep
         IN  SubSeq(text, 1, i)

ShortUrl == <<"y","o","u","t","u",".","b","e","/">>

\* lines 169-178: the text between the first 'v=' and the next 'v=' or '&',
\* or between the first 'youtu.be/' and the next 'youtu.be/' or '?'
_extract_video_id(url) ==
    IF Contains(url, <<"y","o","u","t","u","b","e",".","c","o","m","/","w","a","t","c","h","?","v","=">>)
    THEN BeforeFirst(BeforeFirst(AfterFirst(url, <<"v","=">>), <<"v","=">>), <<"&">>)
    ELSE IF Contains(url, ShortUrl)
    THEN BeforeFirst(BeforeFirst(AfterFirst(url, ShortUrl), ShortUrl), <<"?">>)
    ELSE None

\* TelegramCache.query.filter_by(youtube_id=v).first()
FirstByYoutubeId(rows, v) ==
    LET hits == {i \in DOMAIN rows : rows[i].youtube_id = v}
    IN  IF hits = {} THEN None
        ELSE rows[CHOOSE i \in hits : \A j \in hits : i <= j]

\* lines 67-74: the first row of the scan whose title or original_query is
\* similar enough
RECURSIVE FirstFuzzy(_, _)
FirstFuzzy(query, rows) ==
    IF rows = <<>> THEN None
    ELSE LET entry == Head(rows)
         IN  IF FracGt(ratio(Lower(query), Lower(entry.title)), Frac(6, 10))
                \/ FracGt(ratio(Lower(query), Lower(entry.original_query)), Frac(7, 10))
             THEN entry
             ELSE FirstFuzzy(query, Tail(rows))

\* lines 48-84
_search_database_cache(query, rows) ==
    LET cached   == FirstByHash(rows, md5(Lower(query)))
        by_id    == IF Len(query) = 11 /\ \A k \in DOMAIN query : IsAlnum(query[k])
                    THEN FirstByYoutubeId(rows, query) ELSE None
        video_id == _extract_video_id(query)
        by_url   == IF video_id # None /\ video_id # <<>>
                    THEN FirstByYoutubeId(rows, video_id) ELSE None
    IN  IF cached # None THEN cached
        ELSE IF by_id # None THEN by_id
        ELSE IF by_url # None THEN by_url
        ELSE FirstFuzzy(query, rows)

(***************************************************************************)
(* utils.py                                                                 *)
(***************************************************************************)
harmful_patterns ==
    { <<"<","s","c","r","i","p","t">>,
      <<"j","a","v","a","s","c","r","i","p","t",":">>,
      <<"d","a","t","a",":">>,
      <<"v","b","s","c","r","i","p","t",":">> }

validate_query(query) ==
    IF query = <<>> \/ Len(Strip(query)) < 2 THEN FALSE
    ELSE ~ \E pattern \in harmful_patterns : Contains(Lower(query), pattern)

(***************************************************************************)
(* State                                                                    *)
(***************************************************************************)
VARIABLES
    bot,          \* TelegramStorage.bot is set (the async storage can upload)
    cache,        \* the telegram_cache table, rows in primary-key order
    uploads,      \* number of messages posted to the Telegram channel so far
    tmp,          \* the temporary payload files that exist on disk
    req,          \* the extract_media requests and their local variables
    search_out,   \* the last response looked at: of the search_cache endpoint,
                  \* of _search_database_cache or of store_media
    now,          \* the clock read by datetime.now(), in seconds
    extractor,    \* the global youtube_extractor and the HTTP clients it created
    api           \* the api_keys row of one key and the requests passing require_api_key

vars == <<bot, cache, uploads, tmp, req, search_out, now, extractor, api>>

\* config.py: seconds between two cache cleanups, and the retention window
CACHE_CLEANUP_INTERVAL == 24 * 60 * 60

MAX_CACHE_AGE == 30 * 24 * 60 * 60

\* cleanup intervals that pass in one run
MaxTicks == 32

\* models.py line 16: datetime.timedelta(days=1), in seconds
OneDay == 24 * 60 * 60

\* the daily_limit column of the key (100 when not given), taken small
daily_limit == 2

\* calls made with the key in one run
MaxCalls == 4

\* number of extract_media requests in one run
NumReq == 2

\* uploads to the channel in one run
MaxUploads == 2

Reqs == 1..NumReq

\* a column that holds NULL, a dict key that is absent
NULL == <<"NULL">>

(***************************************************************************)
(* Inputs of the request handlers                                           *)
(***************************************************************************)
QHi == <<"h","i">>

QTheHi == <<"T","h","e"," ","h","i">>

QBang == <<"!","!">>

QOne == <<"a">>

\* what the Extractor can find: title and video id of the media
Videos == { [title |-> <<"h","i">>, youtube_id |-> <<"v","1">>] }

\* os.path.join(tempfile.gettempdir(), f"{safe_title}_{youtube_id}.{ext}")
TempPath(video) == [safe_title |-> video.title, youtube_id |-> video.youtube_id]

(***************************************************************************)
(* models.py: a row of telegram_cache                                       *)
(***************************************************************************)
TelegramCache(query_hash, original_query, youtube_id, title, file_id, file_unique_id, message_id, access_count) ==
    [ id                  |-> Len(cache) + 1,
      query_hash          |-> query_hash,
      original_query      |-> original_query,
      youtube_id          |-> youtube_id,
      title               |-> title,
      file_id             |-> file_id,
      file_unique_id      |-> file_unique_id,
      telegram_message_id |-> message_id,
      access_count        |-> access_count,
      created_at          |-> now ]

\* a table without the unique constraint on query_hash
HashNeverTaken(h) == FALSE

\* the unique constraint on query_hash: db.session.commit() of a new row
\* raises IntegrityError when a row with that query_hash exists
HashTaken(h) == \E i \in DOMAIN cache : cache[i].query_hash = h

(***************************************************************************)
(* routes.py: extract_media                                                 *)
(***************************************************************************)
IdleReq ==
    [ pc |-> "idle", query |-> NULL, force_download |-> FALSE, before |-> {},
      session |-> <<>>, search_result |-> None, extraction |-> None,
      upload_result |-> None, resp |-> None,
      store_error |-> "none",    \* which store operation of the request raised
      deadline |-> "open" ]      \* where the request was when its caller gave up

ErrorResp(code, error) ==
    [ status |-> "error", code |-> code, error |-> error ]

CachedResp(search_result, access_count) ==
    [ status |-> "success", code |-> 200, cached |-> TRUE,
      match_type     |-> search_result.match_type,
      confidence     |-> search_result.confidence,
      row            |-> search_result.cache_entry.id,
      file_id        |-> search_result.cache_entry.file_id,
      file_unique_id |-> search_result.cache_entry.file_unique_id,
      access_count   |-> access_count ]

FreshResp(upload_result) ==
    [ status |-> "success", code |-> 200, cached |-> FALSE,
      file_id        |-> upload_result.file_id,
      file_unique_id |-> upload_result.file_unique_id ]

\* the session's identity map: the first load of a row fixes the attribute
\* values the request sees; a later query does not refresh them
Load(session, rows) ==
    [i \in DOMAIN rows |->
        IF i \in DOMAIN session THEN session[i] ELSE rows[i]]

LoadOne(session, row) ==
    [i \in DOMAIN session \cup {row.id} |->
        IF i \in DOMAIN session THEN session[i] ELSE row]

\* lines 88-121: parameters, validate_query, and the choice between lookup
\* and forced extraction (format_type is left at its default 'audio')
Start(r, query, force_download) ==
    /\ req[r].pc = "idle"
    /\ \A s \in Reqs : s < r => req[s].pc # "idle"
    /\ req' = [req EXCEPT ![r] =
          IF ~validate_query(query)
          THEN [@ EXCEPT !.pc = "done", !.query = query,
                         !.force_download = force_download,
                         !.resp = ErrorResp(400, "Invalid query")]
          ELSE [@ EXCEPT !.pc = IF force_download THEN "extract" ELSE "tier1",
                         !.query = query,
                         !.force_download = force_download,
                         !.before = {s \in Reqs : req[s].pc = "done"}]]
    /\ UNCHANGED <<extractor, api, now, bot, cache, uploads, tmp, search_out>>

\* TierStep against a store that an extraction or upload in flight keeps
\* locked: the query of the tier times out on the lock and raises
TierStepLocked(r, pc, result, session, miss_pc) ==
    /\ req[r].pc = pc
    /\ req' = [req EXCEPT ![r] =
          IF \E s \in Reqs \ {r} : req[s].pc \in {"extract", "upload"}
          THEN [@ EXCEPT !.pc = "done", !.store_error = "read",
                         !.resp = ErrorResp(500, "Internal server error")]
          ELSE IF result # None
          THEN [@ EXCEPT !.pc = "hit", !.session = session,
                         !.search_result =
                             [result EXCEPT !.cache_entry = session[result.cache_entry.id]]]
          ELSE [@ EXCEPT !.pc = miss_pc, !.session = session]]
    /\ UNCHANGED <<extractor, api, now, bot, cache, uploads, tmp, search_out>>

\* one tier of the lookup started at line 123; a hit goes on to line 127
TierStep(r, pc, result, session, miss_pc) ==
    /\ req[r].pc = pc
    /\ req' = [req EXCEPT ![r] =
          IF result # None
          THEN [@ EXCEPT !.pc = "hit", !.session = session,
                         !.search_result =
                             [result EXCEPT !.cache_entry = session[result.cache_entry.id]]]
          ELSE [@ EXCEPT !.pc = miss_pc, !.session = session]]
    /\ UNCHANGED <<extractor, api, now, bot, cache, uploads, tmp, search_out>>

Tier1(r) ==
    LET result == ExactTier(req[r].query, cache)
    IN  TierStep(r, "tier1", result,
                 IF result = None THEN req[r].session
                 ELSE LoadOne(req[r].session, result.cache_entry),
                 "tier2")

Tier2(r) ==
    TierStep(r, "tier2", HighSimilarityTier(req[r].query, cache),
             Load(req[r].session, cache), "tier3")

Tier3(r) ==
    TierStep(r, "tier3", KeywordTier(req[r].query, cache),
             Load(req[r].session, cache), "tier4")

Tier4(r) ==
    TierStep(r, "tier4", LowSimilarityTier(req[r].query, cache),
             Load(req[r].session, cache), "extract")

\* Hit without the return of line 134: the request goes on to the Extractor
HitFallsThrough(r) ==
    LET cached_result == req[r].search_result.cache_entry
        access_count  == cached_result.access_count + 1
    IN  /\ req[r].pc = "hit"
        /\ cache' = [cache EXCEPT ![cached_result.id].access_count = access_count]
        /\ req' = [req EXCEPT ![r].pc = "extract"]
        /\ UNCHANGED <<extractor, api, now, bot, uploads, tmp, search_out>>

\* lines 127-150: access statistics, commit, cached response.  The commit of
\* line 130 issues UPDATE telegram_cache ... WHERE id = ?; when no row has
\* that id any more the session raises StaleDataError, which nothing before
\* the handler of lines 221-226 catches.
Hit(r) ==
    LET cached_result == req[r].search_result.cache_entry
        access_count  == cached_result.access_count + 1
    IN  /\ req[r].pc = "hit"
        /\ IF cached_result.id \in DOMAIN cache
           THEN /\ cache' = [cache EXCEPT ![cached_result.id].access_count = access_count]
                /\ req' = [req EXCEPT ![r].pc = "done",
                                      ![r].resp = CachedResp(req[r].search_result, access_count)]
           ELSE /\ cache' = cache
                /\ req' = [req EXCEPT ![r].pc = "done",
                                      ![r].store_error = "stale",
                                      ![r].resp = ErrorResp(500, "Internal server error")]
        /\ UNCHANGED <<extractor, api, now, bot, uploads, tmp, search_out>>

\* lines 152-160: the Extractor returns a payload file and metadata, or None
Extract(r, video) ==
    /\ req[r].pc = "extract"
    /\ IF video = None
       THEN /\ req' = [req EXCEPT ![r].pc = "done",
                                  ![r].resp = ErrorResp(404, "Failed to extract media from YouTube")]
            /\ tmp' = tmp
       ELSE /\ req' = [req EXCEPT ![r].pc = "upload",
                                  ![r].extraction =
                                      [ title     |-> video.title,
                                        youtube_id |-> video.youtube_id,
                                        file_path |-> TempPath(video),
                                        query     |-> req[r].query ]]
            /\ tmp' = tmp \cup {TempPath(video)}
    /\ UNCHANGED <<extractor, api, now, bot, cache, uploads, search_out>>

(***************************************************************************)
(* youtube_api.py: the global youtube_extractor (line 253) entered with       *)
(* `async with` at routes.py line 153.  extractor.session is self.session, 0  *)
(* for None and else the number of an httpx.AsyncClient; clients lists the    *)
(* clients created, each with the request that created it and the number of   *)
(* aclose() calls it received; used[r] is the client the extraction of        *)
(* request r called, used_closed the requests that called a closed one.       *)
(***************************************************************************)
IdleExtractor ==
    [ session |-> 0, clients |-> <<>>,
      used |-> [r \in Reqs |-> 0], used_closed |-> {} ]

\* __aenter__ (lines 26-28): a new client replaces self.session
AEnter(r) ==
    /\ req[r].pc = "extract"
    /\ extractor' = [extractor EXCEPT
                        !.session = Len(extractor.clients) + 1,
                        !.clients = Append(@, [owner |-> r, closes |-> 0])]
    /\ req' = [req EXCEPT ![r].pc = "session"]
    /\ UNCHANGED <<api, now, bot, cache, uploads, tmp, search_out>>

\* extract_media (lines 34-44): _try_ytapii_api calls self.session.get at
\* line 59; on a closed client that raises, line 69 catches it and the yt-dlp
\* fallback of line 44 runs without the session.  Either way the result is a
\* payload file with metadata, or None.
ExtractMedia(r, video) ==
    /\ req[r].pc = "session"
    /\ extractor' = [extractor EXCEPT
                        !.used[r] = extractor.session,
                        !.used_closed =
                            IF extractor.clients[extractor.session].closes > 0
                            THEN @ \cup {r} ELSE @]
    /\ IF video = None
       THEN /\ req' = [req EXCEPT ![r].pc = "aexit"]
            /\ tmp' = tmp
       ELSE /\ req' = [req EXCEPT ![r].pc = "aexit",
                                  ![r].extraction =
                                      [ title     |-> video.title,
                                        youtube_id |-> video.youtube_id,
                                        file_path |-> TempPath(video),
                                        query     |-> req[r].query ]]
            /\ tmp' = tmp \cup {TempPath(video)}
    /\ UNCHANGED <<api, now, bot, cache, uploads, search_out>>

\* __aexit__ (lines 30-32) closes whatever self.session is now and leaves it
\* set; then routes.py lines 156-160
AExit(r) ==
    /\ req[r].pc = "aexit"
    /\ extractor' =
          IF extractor.session # 0
          THEN [extractor EXCEPT !.clients[extractor.session].closes = @ + 1]
          ELSE extractor
    /\ req' = [req EXCEPT ![r] =
          IF req[r].extraction = None
          THEN [@ EXCEPT !.pc = "done",
                         !.resp = ErrorResp(404, "Failed to extract media from YouTube")]
          ELSE [@ EXCEPT !.pc = "upload"]]
    /\ UNCHANGED <<api, now, bot, cache, uploads, tmp, search_out>>

(***************************************************************************)
(* routes.py: require_api_key (lines 24-58) for the requests of one valid    *)
(* key.  api.key is the api_keys row; api.callers[c].key_obj is the row       *)
(* object the request loaded at line 33; api.admitted counts the requests     *)
(* admitted since the window was last reset, api.calls all calls made.        *)
(***************************************************************************)
IdleApi ==
    [ key      |-> [count |-> 0, reset_at |-> OneDay],
      callers  |-> [c \in Reqs |-> [pc |-> "out", key_obj |-> None]],
      admitted |-> 0,
      calls    |-> 0 ]

\* models.py lines 26-30
remaining_requests(key_obj) ==
    IF now > key_obj.reset_at THEN daily_limit
    ELSE IF daily_limit - key_obj.count > 0 THEN daily_limit - key_obj.count ELSE 0

\* lines 33-43: the row is loaded and the quota tested; 429 when it is used up
KeyCheck(c) ==
    /\ api.callers[c].pc = "out"
    /\ api.calls < MaxCalls
    /\ api' = [api EXCEPT
                  !.calls = @ + 1,
                  !.callers[c] =
                      IF remaining_requests(api.key) <= 0
                      THEN [pc |-> "out", key_obj |-> None]
                      ELSE [pc |-> "admitted", key_obj |-> api.key]]
    /\ UNCHANGED <<extractor, now, bot, cache, uploads, tmp, req, search_out>>

\* lines 45-52: the usage count is set on the loaded object and committed;
\* the UPDATE writes the attributes that were assigned
KeyCommit(c) ==
    LET key_obj == api.callers[c].key_obj
    IN  /\ api.callers[c].pc = "admitted"
        /\ api' = [api EXCEPT
                      !.key = IF now > key_obj.reset_at
                              THEN [count |-> 1, reset_at |-> now + OneDay]
                              ELSE [@ EXCEPT !.count = key_obj.count + 1],
                      !.admitted = IF now > key_obj.reset_at THEN 1 ELSE @ + 1,
                      !.callers[c] = [pc |-> "out", key_obj |-> None]]
        /\ UNCHANGED <<extractor, now, bot, cache, uploads, tmp, req, search_out>>

\* Upload that registers the row before the file is sent, so that a failed
\* send leaves the row behind
UploadRegistersFirst(r, sent) ==
    LET file_path == req[r].extraction.file_path
        message   == [ file_id        |-> uploads + 1,
                       file_unique_id |-> uploads + 1,
                       message_id     |-> uploads + 1,
                       uploaded       |-> TRUE ]
    IN  /\ req[r].pc = "upload"
        /\ bot /\ file_path \in tmp
        /\ uploads < MaxUploads
        /\ uploads' = uploads + 1
        /\ cache' = Append(cache,
               [ id |-> Len(cache) + 1, query_hash |-> [pending |-> uploads + 1],
                 original_query |-> req[r].extraction.query, youtube_id |-> <<"NULL">>,
                 title |-> req[r].extraction.title, file_id |-> uploads + 1,
                 file_unique_id |-> uploads + 1, telegram_message_id |-> uploads + 1,
                 access_count |-> 1, created_at |-> now ])
        /\ req' = IF sent
                  THEN [req EXCEPT ![r].pc = "done", ![r].upload_result = message,
                                   ![r].resp = [ status |-> "success", code |-> 200,
                                                 cached |-> FALSE,
                                                 file_id |-> uploads + 1,
                                                 file_unique_id |-> uploads + 1 ]]
                  ELSE [req EXCEPT ![r].pc = "done",
                                   ![r].resp = [ status |-> "error", code |-> 500,
                                                 error |-> "Internal server error" ]]
        /\ UNCHANGED <<extractor, api, now, bot, tmp, search_out>>

\* telegram_bot.py lines 160-213 and 227-232, then routes.py lines 168-175.
\* Without a bot the mock result is returned and nothing is stored.  With a
\* bot, a missing file gives None; a failed send raises, and evaluating
\* `except TelegramError` (a name the module never imports) raises in turn,
\* so the exception leaves upload_media and reaches routes.py line 221.
Upload(r, sent) ==
    LET file_path == req[r].extraction.file_path
        mock      == [ file_id        |-> [mock_file |-> md5(file_path)],
                       file_unique_id |-> [mock_unique |-> md5(file_path)],
                       message_id     |-> 12345,
                       uploaded       |-> FALSE ]
        message   == [ file_id        |-> uploads + 1,
                       file_unique_id |-> uploads + 1,
                       message_id     |-> uploads + 1,
                       uploaded       |-> TRUE ]
    IN  /\ req[r].pc = "upload"
        /\ IF ~bot
           THEN /\ req' = [req EXCEPT ![r].pc = "done",
                                      ![r].upload_result = mock,
                                      ![r].resp = FreshResp(mock)]
                /\ tmp' = tmp \ {file_path}
                /\ uploads' = uploads
           ELSE IF file_path \notin tmp
           THEN /\ req' = [req EXCEPT ![r].pc = "done",
                                      ![r].resp = ErrorResp(500, "Failed to upload to Telegram storage")]
                /\ UNCHANGED <<tmp, uploads>>
           ELSE IF ~sent
           THEN /\ req' = [req EXCEPT ![r].pc = "done",
                                      ![r].resp = ErrorResp(500, "Internal server error")]
                /\ UNCHANGED <<tmp, uploads>>
           ELSE /\ uploads < MaxUploads
                /\ req' = [req EXCEPT ![r].pc = "cache", ![r].upload_result = message]
                /\ uploads' = uploads + 1
                /\ tmp' = tmp
        /\ UNCHANGED <<extractor, api, now, bot, cache, search_out>>

\* CacheUploadResult that, when the query_hash is taken, overwrites the file
\* reference of the existing row instead of rolling back
CacheUploadResultUpsert(r) ==
    LET query      == req[r].extraction.query
        query_hash == [digest_of |-> Lower(query)]
        file_info  == req[r].upload_result
        taken      == {i \in DOMAIN cache : cache[i].query_hash = query_hash}
    IN  /\ req[r].pc = "cache"
        /\ cache' = IF taken # {}
                    THEN [i \in DOMAIN cache |->
                            IF i \in taken
                            THEN [cache[i] EXCEPT !.file_id = file_info.file_id,
                                                  !.file_unique_id = file_info.file_unique_id,
                                                  !.telegram_message_id = file_info.message_id]
                            ELSE cache[i]]
                    ELSE Append(cache,
                            [ id |-> Len(cache) + 1, query_hash |-> query_hash,
                              original_query |-> query, youtube_id |-> <<"NULL">>,
                              title |-> req[r].extraction.title,
                              file_id |-> file_info.file_id,
                              file_unique_id |-> file_info.file_unique_id,
                              telegram_message_id |-> file_info.message_id,
                              access_count |-> 1, created_at |-> now ])
        /\ tmp' = tmp \ {req[r].extraction.file_path}
        /\ req' = [req EXCEPT ![r].pc = "done",
                              ![r].resp = [ status |-> "success", code |-> 200,
                                            cached |-> FALSE,
                                            file_id |-> file_info.file_id,
                                            file_unique_id |-> file_info.file_unique_id ]]
        /\ UNCHANGED <<extractor, api, now, bot, uploads, search_out>>

\* telegram_bot.py lines 214-225 and 286-309 (_cache_upload_result), then
\* routes.py lines 168-219.  The commit fails on the unique constraint when
\* the query_hash is taken; the exception is logged and rolled back.
CacheUploadResult(r) ==
    LET query      == req[r].extraction.query
        query_hash == md5(Lower(query))
        file_info  == req[r].upload_result
        cache_entry ==
            TelegramCache(query_hash, query, NULL, req[r].extraction.title,
                          file_info.file_id, file_info.file_unique_id,
                          file_info.message_id, 1)
    IN  /\ req[r].pc = "cache"
        /\ IF HashTaken(query_hash)
           THEN cache' = cache
           ELSE cache' = Append(cache, cache_entry)
        /\ tmp' = tmp \ {req[r].extraction.file_path}
        /\ req' = [req EXCEPT ![r].pc = "done", ![r].resp = FreshResp(file_info)]
        /\ UNCHANGED <<extractor, api, now, bot, uploads, search_out>>

(***************************************************************************)
(* The store is unavailable for one operation of a request                  *)
(***************************************************************************)
\* search.py lines 134, 43 and 81: a query of the cascade raises.  Neither
\* comprehensive_search nor the lookup of routes.py lines 121-130 catches it;
\* it reaches the handler of routes.py lines 221-226.
TierRaises(r) ==
    /\ req[r].pc \in {"tier1", "tier2", "tier3", "tier4"}
    /\ req' = [req EXCEPT ![r].pc = "done",
                          ![r].store_error = "read",
                          ![r].resp = ErrorResp(500, "Internal server error")]
    /\ UNCHANGED <<extractor, api, now, bot, cache, uploads, tmp, search_out>>

\* telegram_bot.py lines 303-309: the commit of the new row raises for a reason
\* other than the unique constraint; _cache_upload_result logs it and rolls
\* back, upload_media returns the upload (lines 217-225) and routes.py
\* lines 168-219 answer with it.
CacheUploadResultFails(r) ==
    /\ req[r].pc = "cache"
    /\ tmp' = tmp \ {req[r].extraction.file_path}
    /\ req' = [req EXCEPT ![r].pc = "done",
                          ![r].store_error = "insert",
                          ![r].resp = FreshResp(req[r].upload_result)]
    /\ UNCHANGED <<extractor, api, now, bot, cache, uploads, search_out>>

(***************************************************************************)
(* Time passes: the clock that created_at and last_accessed are read from    *)
(* (models.py lines 59-60) moves on by one cleanup interval.  No code runs   *)
(* on that interval; CACHE_CLEANUP_INTERVAL and MAX_CACHE_AGE are read       *)
(* nowhere.                                                                  *)
(***************************************************************************)
Tick ==
    /\ now < MaxTicks * CACHE_CLEANUP_INTERVAL
    /\ now' = now + CACHE_CLEANUP_INTERVAL
    /\ UNCHANGED <<extractor, api, bot, cache, uploads, tmp, req, search_out>>

(***************************************************************************)
(* The caller's deadline passes while extract_media awaits the Extractor    *)
(* (routes.py lines 153-154) or the upload (lines 163-166).  Neither await   *)
(* takes a deadline and nothing in the handler looks at the caller again,    *)
(* so the request itself is left as it is.                                   *)
(***************************************************************************)
DeadlineElapses(r) ==
    /\ req[r].pc \in {"extract", "upload"}
    /\ req[r].deadline = "open"
    /\ req' = [req EXCEPT ![r].deadline = req[r].pc]
    /\ UNCHANGED <<extractor, api, now, bot, cache, uploads, tmp, search_out>>

(***************************************************************************)
(* routes.py: search_cache (lines 228-262); it only reads the table          *)
(***************************************************************************)
SearchCache(query) ==
    /\ search_out' =
          IF ~validate_query(query)
          THEN [ query |-> query, status |-> "error", rows |-> cache,
                 found |-> FALSE, result |-> None ]
          ELSE LET search_result == comprehensive_search(query, cache)
               IN  [ query |-> query, status |-> "success", rows |-> cache,
                     found |-> search_result # None, result |-> search_result ]
    /\ UNCHANGED <<extractor, api, now, bot, cache, uploads, tmp, req>>

(***************************************************************************)
(* file_storage.py: LocalFileStorage.store_media (lines 17-80).  copied      *)
(* tells whether the file could be copied to the storage directory;         *)
(* otherwise the exception is logged and None is returned.  The commit of    *)
(* line 67 fails on the unique constraint when another session registered    *)
(* the query_hash after the lookup of line 24; the failed flush rolls the    *)
(* transaction back.  The local path and the file size stored in file_id     *)
(* and telegram_message_id stand as 0, which is no Telegram identifier.      *)
(***************************************************************************)
\* store_media that looks the row up by the hash of the query as it was typed
store_media_case_sensitive(media_info, copied) ==
    LET query      == media_info.original_query
        query_hash == md5(query)
        existing   == FirstByHash(cache, query_hash)
        cache_entry ==
            TelegramCache(query_hash, query, media_info.youtube_id, media_info.title,
                          0, 0, 0, 0)
    IN  IF existing # None
        THEN [ cache |-> cache, copy |-> FALSE,
               result |-> [file_id |-> existing.file_id,
                           file_unique_id |-> existing.file_unique_id] ]
        ELSE IF ~copied
        THEN [ cache |-> cache, copy |-> TRUE, result |-> None ]
        ELSE [ cache |-> Append(cache, cache_entry), copy |-> TRUE,
               result |-> [file_id |-> 0, file_unique_id |-> 0] ]

\* store_media (lines 17-80) with what it returns: the table after the call,
\* whether shutil.copy2 was called (line 48), and the returned file ids or None
store_media(media_info, copied) ==
    LET query      == media_info.original_query
        query_hash == md5(Lower(query))
        existing   == FirstByHash(cache, query_hash)
        cache_entry ==
            TelegramCache(query_hash, query, media_info.youtube_id, media_info.title,
                          0, 0, 0, 0)
    IN  IF existing # None
        THEN [ cache |-> cache, copy |-> FALSE,
               result |-> [file_id |-> existing.file_id,
                           file_unique_id |-> existing.file_unique_id] ]
        ELSE IF ~copied
        THEN [ cache |-> cache, copy |-> TRUE, result |-> None ]
        ELSE [ cache |-> Append(cache, cache_entry), copy |-> TRUE,
               result |-> [file_id |-> 0, file_unique_id |-> 0] ]

\* a call of store_media whose return value is dropped
StoreMedia(media_info, copied) ==
    /\ copied
    /\ cache' = store_media(media_info, copied).cache
    /\ UNCHANGED <<extractor, api, now, bot, uploads, tmp, req, search_out>>

\* a call of store_media whose return value is looked at
StoreMediaReturn(media_info, copied) ==
    LET stored == store_media(media_info, copied)
    IN  /\ cache' = stored.cache
        /\ search_out' = [ query |-> media_info.original_query, status |-> "stored",
                           rows |-> cache, found |-> stored.result # None,
                           result |-> stored.result, copy |-> stored.copy ]
        /\ UNCHANGED <<extractor, api, now, bot, uploads, tmp, req>>

\* upload_media whose _save_to_cache neither looks for an existing row nor
\* meets a unique constraint
SyncUploadMediaUnconstrained(media_info, configured, sent) ==
    LET query      == media_info.original_query
        query_hash == md5(Lower(query))
        result     == [ file_id |-> uploads + 1, file_unique_id |-> uploads + 1,
                        message_id |-> uploads + 1 ]
        cache_entry ==
            TelegramCache(query_hash, query, media_info.youtube_id, media_info.title,
                          result.file_id, result.file_unique_id, result.message_id, 0)
    IN  /\ configured /\ sent
        /\ uploads < MaxUploads
        /\ uploads' = uploads + 1
        /\ cache' = Append(cache, cache_entry)
        /\ UNCHANGED <<extractor, api, now, bot, tmp, req, search_out>>

(***************************************************************************)
(* telegram_bot_sync.py: TelegramStorageSync.upload_media (lines 318-357)    *)
(* with _save_to_cache (lines 539-572).  media_info carries original_query,  *)
(* title and youtube_id; configured tells whether base_url is set and the    *)
(* file exists, sent whether Telegram accepted the file.                     *)
(***************************************************************************)
SyncUploadMedia(media_info, configured, sent) ==
    LET query      == media_info.original_query
        query_hash == md5(Lower(query))
        result     == [ file_id |-> uploads + 1, file_unique_id |-> uploads + 1,
                        message_id |-> uploads + 1 ]
        cache_entry ==
            TelegramCache(query_hash, query, media_info.youtube_id, media_info.title,
                          result.file_id, result.file_unique_id, result.message_id, 0)
    IN  /\ configured /\ sent    \* otherwise None is returned and nothing changes
        /\ uploads < MaxUploads
        /\ uploads' = uploads + 1
        /\ IF HashTaken(query_hash)
           THEN cache' = cache
           ELSE cache' = Append(cache, cache_entry)
        /\ UNCHANGED <<extractor, api, now, bot, tmp, req, search_out>>

(***************************************************************************)
(* Inputs of the matcher runs                                               *)
(***************************************************************************)
QAlpha20 == <<"a","b","c","d","e","f","g","h","i","j",
              "k","l","m","n","o","p","q","r","s","t">>

\* differs from QAlpha20 in the last character: similarity 38/40 = 0.95
QAlpha20u == <<"a","b","c","d","e","f","g","h","i","j",
               "k","l","m","n","o","p","q","r","s","u">>

\* similarity to QAlpha10 is 18/20 = 0.9
QAlpha10z == <<"a","b","c","d","e","f","g","h","i","z">>

QAlpha10 == <<"a","b","c","d","e","f","g","h","i","j">>

QBarFooSong == <<"B","a","r"," ","F","o","o"," ","S","o","n","g">>

\* the keyword list is [foo, foo, bar]
QFooFooBar == <<"f","o","o"," ","f","o","o"," ","b","a","r">>

QFooBar == <<"f","o","o"," ","b","a","r">>

QVideoId == <<"L","r","A","t","B","t","Q","n","v","C","E">>

MediaInfo(original_query, title, youtube_id) ==
    [original_query |-> original_query, title |-> title, youtube_id |-> youtube_id]

QBarFoo == <<"b","a","r"," ","f","o","o">>

\* query sent to /api/v1/extract while the store is unreliable
FaultQueries == {QHi}

(***************************************************************************)
(* Specifications                                                           *)
(***************************************************************************)
\* The table is empty and no request has arrived.  TelegramStorage.__init__
\* (telegram_bot.py line 22) leaves bot at None, "temporarily disabled"; the
\* deployment with a bot, for which upload_media lines 174-232 are written, is
\* the other configuration.
Init ==
    /\ bot \in BOOLEAN
    /\ cache = <<>>
    /\ uploads = 0
    /\ tmp = {}
    /\ now = 0
    /\ extractor = IdleExtractor
    /\ api = IdleApi
    /\ req = [r \in Reqs |-> IdleReq]
    /\ search_out = [query |-> NULL, status |-> "none", rows |-> <<>>,
                     found |-> FALSE, result |-> None]

StartAny == \E r \in Reqs, query \in {QHi, QTheHi, QBang, QOne}, force_download \in BOOLEAN :
                Start(r, query, force_download)

Tier1Any == \E r \in Reqs : Tier1(r)

Tier2Any == \E r \in Reqs : Tier2(r)

Tier3Any == \E r \in Reqs : Tier3(r)

Tier4Any == \E r \in Reqs : Tier4(r)

HitAny == \E r \in Reqs : Hit(r)

ExtractAny == \E r \in Reqs, video \in Videos \cup {None} : Extract(r, video)

UploadAny == \E r \in Reqs, sent \in BOOLEAN : Upload(r, sent)

CacheUploadResultAny == \E r \in Reqs : CacheUploadResult(r)

\* the web application: concurrent extract_media requests
Next ==
    \/ StartAny
    \/ Tier1Any
    \/ Tier2Any
    \/ Tier3Any
    \/ Tier4Any
    \/ HitAny
    \/ ExtractAny
    \/ UploadAny
    \/ CacheUploadResultAny

Spec == Init /\ [][Next]_vars

MatchUploadAny == \E media_info \in { MediaInfo(QAlpha20, QAlpha20, <<>>), MediaInfo(QAlpha20u,
        QAlpha20u, <<>>), MediaInfo(QAlpha10z, QAlpha10z, <<>>), MediaInfo(QBarFooSong,
        <<"z","z">>, QVideoId) }, configured \in BOOLEAN, sent \in BOOLEAN :
                      SyncUploadMedia(media_info, configured, sent)

SearchCacheAny == \E query \in { QAlpha20, <<"a","b","c","d","e","f","g","h","i","j",
        "k","l","m","n","o","p","q","r","u","u">>, <<"a","b","c","d","e","f","g","h","i","j",
        "k","l","m","n","o","p","q","r","s","w">>, QAlpha10,
        <<"a","b","c","d","e","f","g","x","y","z">>, QFooBar, QFooFooBar, QVideoId, QBang,
        QOne } : SearchCache(query)

\* the matcher over tables filled by the sync storage
NextMatch ==
    \/ MatchUploadAny
    \/ SearchCacheAny

SpecMatch == Init /\ [][NextMatch]_vars

StartNearAny == \E r \in Reqs, query \in {QFooBar, QBarFoo}, force_download \in BOOLEAN :
                    Start(r, query, force_download)

\* extract_media requests whose queries are reorderings of one another
NextNear ==
    \/ StartNearAny
    \/ Tier1Any
    \/ Tier2Any
    \/ Tier3Any
    \/ Tier4Any
    \/ HitAny
    \/ ExtractAny
    \/ UploadAny
    \/ CacheUploadResultAny

SpecNear == Init /\ [][NextNear]_vars

StartFaultAny == \E r \in Reqs, query \in FaultQueries, force_download \in BOOLEAN :
                     Start(r, query, force_download)

TierRaisesAny == \E r \in Reqs : TierRaises(r)

CacheUploadResultFailsAny == \E r \in Reqs : CacheUploadResultFails(r)

\* extract_media requests while single store operations can fail
NextFaults ==
    \/ StartFaultAny
    \/ Tier1Any
    \/ Tier2Any
    \/ Tier3Any
    \/ Tier4Any
    \/ HitAny
    \/ ExtractAny
    \/ UploadAny
    \/ CacheUploadResultAny
    \/ TierRaisesAny
    \/ CacheUploadResultFailsAny

SpecFaults == Init /\ [][NextFaults]_vars

AgingUploadAny == \E media_info \in { MediaInfo(QHi, QHi, <<"v","1">>), MediaInfo(QTheHi, QHi,
        <<"v","1">>) }, configured \in BOOLEAN, sent \in BOOLEAN :
                      SyncUploadMedia(media_info, configured, sent)

\* rows are registered and grow old
NextAging ==
    \/ AgingUploadAny
    \/ Tick

SpecAging == Init /\ [][NextAging]_vars

(***************************************************************************)
(* The Cache Janitor: on its timer it deletes the rows older than            *)
(* MAX_CACHE_AGE.  The step taken here is a sweep that finds every stored    *)
(* row expired, so that the rows left keep their numbering by position.      *)
(***************************************************************************)
JanitorSweep ==
    /\ cache # <<>>
    /\ \A i \in DOMAIN cache : now - cache[i].created_at > MAX_CACHE_AGE
    /\ cache' = <<>>
    /\ UNCHANGED <<extractor, api, now, bot, uploads, tmp, req, search_out>>

JanitorUploadAny == \E media_info \in { MediaInfo(QHi, QHi, <<"v","1">>) },
        configured \in BOOLEAN, sent \in BOOLEAN :
                        SyncUploadMedia(media_info, configured, sent)

StartJanitorAny == \E r \in Reqs, query \in FaultQueries : Start(r, query, FALSE)

\* extract_media requests while rows grow old and the janitor sweeps
NextJanitor ==
    \/ StartJanitorAny
    \/ Tier1Any
    \/ Tier2Any
    \/ Tier3Any
    \/ Tier4Any
    \/ HitAny
    \/ ExtractAny
    \/ UploadAny
    \/ CacheUploadResultAny
    \/ JanitorUploadAny
    \/ Tick
    \/ JanitorSweep

SpecJanitor == Init /\ [][NextJanitor]_vars

\* extract_media requests, forced and not, beside a store that is being filled
NextBusy ==
    \/ StartFaultAny
    \/ Tier1Any
    \/ Tier2Any
    \/ Tier3Any
    \/ Tier4Any
    \/ HitAny
    \/ ExtractAny
    \/ UploadAny
    \/ CacheUploadResultAny
    \/ JanitorUploadAny

SpecBusy == Init /\ [][NextBusy]_vars

QTide == <<"t","i","d","e">>

\* SequenceMatcher gives 0.25 for (tide, diet) and 0.5 for (diet, tide)
QDiet == <<"d","i","e","t">>

\* similarity to QTide is 8/9
QTides == <<"t","i","d","e","s">>

SimilarityUploadAny == \E media_info \in { MediaInfo(QTide, QTide, <<>>), MediaInfo(QDiet,
        QDiet, <<>>), MediaInfo(QAlpha10z, QAlpha10z, <<>>), MediaInfo(QBarFooSong, <<"z","z">>,
        QVideoId) }, configured \in BOOLEAN, sent \in BOOLEAN :
                           SyncUploadMedia(media_info, configured, sent)

SimilaritySearchAny == \E query \in { QTide, QDiet, QTides, QAlpha10, QFooFooBar,
        QHi } : SearchCache(query)

\* the matcher over short queries, each compared with the rows in both orders
NextSimilarity ==
    \/ SimilarityUploadAny
    \/ SimilaritySearchAny

SpecSimilarity == Init /\ [][NextSimilarity]_vars

StoreMediaAny == \E media_info \in { MediaInfo(QHi, QHi, <<"v","1">>) }, copied \in BOOLEAN :
                     StoreMedia(media_info, copied)

\* every path that inserts into telegram_cache, interleaved
NextInserts ==
    \/ StartFaultAny
    \/ Tier1Any
    \/ Tier2Any
    \/ Tier3Any
    \/ Tier4Any
    \/ HitAny
    \/ ExtractAny
    \/ UploadAny
    \/ CacheUploadResultAny
    \/ JanitorUploadAny
    \/ StoreMediaAny

SpecInserts == Init /\ [][NextInserts]_vars

StartForcedAny == \E r \in Reqs, query \in FaultQueries : Start(r, query, TRUE)

AEnterAny == \E r \in Reqs : AEnter(r)

ExtractMediaAny == \E r \in Reqs, video \in Videos \cup {None} : ExtractMedia(r, video)

AExitAny == \E r \in Reqs : AExit(r)

\* forced extract_media requests, with the steps of the extractor told apart
NextExtractor ==
    \/ StartForcedAny
    \/ AEnterAny
    \/ ExtractMediaAny
    \/ AExitAny
    \/ UploadAny
    \/ CacheUploadResultAny

SpecExtractor == Init /\ [][NextExtractor]_vars

KeyCheckAny == \E c \in Reqs : KeyCheck(c)

KeyCommitAny == \E c \in Reqs : KeyCommit(c)

\* concurrent requests with one API key while days pass
NextKeys ==
    \/ KeyCheckAny
    \/ KeyCommitAny
    \/ Tick

SpecKeys == Init /\ [][NextKeys]_vars

\* similarity to QTide is 8/11, to QTides 10/12
QTidesxx == <<"t","i","d","e","s","x","x">>

\* a call of _search_database_cache; it only reads the table
SearchDatabaseCache(query) ==
    /\ search_out' =
          LET cached == _search_database_cache(query, cache)
          IN  [ query |-> query, status |-> "sync", rows |-> cache,
                found |-> cached # None, result |-> cached ]
    /\ UNCHANGED <<extractor, api, now, bot, cache, uploads, tmp, req>>

SyncSearchUploadAny == \E media_info \in { MediaInfo(QTides, QTides, <<>>), MediaInfo(QTidesxx,
        QTidesxx, <<>>), MediaInfo(QBarFooSong, <<"z","z">>, QVideoId), MediaInfo(QVideoId,
        <<"z","z">>, <<>>) }, configured \in BOOLEAN, sent \in BOOLEAN :
                           SyncUploadMedia(media_info, configured, sent)

SearchDatabaseCacheAny == \E query \in { QTide, QTides, QVideoId,
        <<"y","o","u","t","u",".","b","e","/", "L","r","A","t","B","t","Q","n","v","C","E">>,
        QHi } : SearchDatabaseCache(query)

\* the sync storage: uploads and searches of its database cache
NextSyncSearch ==
    \/ SyncSearchUploadAny
    \/ SearchDatabaseCacheAny

SpecSyncSearch == Init /\ [][NextSyncSearch]_vars

QHiUpper == <<"H","i">>

\* media registered more than once, in either letter case
RegisterMedia ==
    { MediaInfo(QHi,      QHi, <<"v","1">>),
      MediaInfo(QHiUpper, QHi, <<"v","1">>),
      MediaInfo(QTide,    QTide, <<>>) }

RegisterUploadAny == \E media_info \in RegisterMedia, configured \in BOOLEAN, sent \in BOOLEAN :
                         SyncUploadMedia(media_info, configured, sent)

StoreMediaReturnAny == \E media_info \in RegisterMedia, copied \in BOOLEAN :
                           StoreMediaReturn(media_info, copied)

\* the two storages registering media again and again
NextRegister ==
    \/ RegisterUploadAny
    \/ StoreMediaReturnAny

SpecRegister == Init /\ [][NextRegister]_vars

SanitizeSearchAny == \E query \in { QHi, QTheHi, <<"T","h","e"," ","t","h","e">>, QBang,
        QBarFooSong, <<"h", CapitalIDot>> } : SearchCache(query)

\* the normalization of queries in lookups over tables of the sync storage
NextSanitize ==
    \/ SimilarityUploadAny
    \/ SanitizeSearchAny

SpecSanitize == Init /\ [][NextSanitize]_vars

DeadlineElapsesAny == \E r \in Reqs : DeadlineElapses(r)

\* extract_media requests whose callers stop waiting
NextDeadline ==
    \/ StartFaultAny
    \/ Tier1Any
    \/ Tier2Any
    \/ Tier3Any
    \/ Tier4Any
    \/ HitAny
    \/ ExtractAny
    \/ UploadAny
    \/ CacheUploadResultAny
    \/ DeadlineElapsesAny

SpecDeadline == Init /\ [][NextDeadline]_vars

\* the part of extract_media a request is in: parameters and validation
\* (lines 88-121), lookup (123-150), Extractor and upload (152-175), and the
\* registration of the row inside upload_media (telegram_bot.py line 215)
Phase(pc) ==
    CASE pc = "idle" -> "Start"
      [] pc \in {"tier1", "tier2", "tier3", "tier4", "hit"} -> "Matching"
      [] pc \in {"extract", "upload"} -> "Acquiring"
      [] pc = "cache" -> "Persisting"
      [] pc = "done" -> "Done"

\* the next step of the lookup of request r
LookupStep(r) ==
    \/ Tier1(r)
    \/ Tier2(r)
    \/ Tier3(r)
    \/ Tier4(r)

\* the next step of request r after its lookup
AnswerStep(r) ==
    \/ Hit(r)
    \/ \E video \in Videos \cup {None} : Extract(r, video)
    \/ \E sent \in BOOLEAN : Upload(r, sent)
    \/ CacheUploadResult(r)

\* The server runs every started handler on, and the Extractor and the Blob
\* Store return: weak fairness of both kinds of step.  A lookup step is
\* enabled exactly while the request is in one of the four tiers, so weak
\* fairness of LookupStep(r) is written out with that state predicate.
RequestRuns(r) ==
    /\ WF_vars(AnswerStep(r))
    /\ \/ []<>(req[r].pc \notin {"tier1", "tier2", "tier3", "tier4"})
       \/ []<><<LookupStep(r)>>_vars

\* extract_media requests for one query, store operations succeeding
NextLive ==
    \/ StartFaultAny
    \/ Tier1Any
    \/ Tier2Any
    \/ Tier3Any
    \/ Tier4Any
    \/ HitAny
    \/ ExtractAny
    \/ UploadAny
    \/ CacheUploadResultAny

SpecLive == Init /\ [][NextLive]_vars /\ \A r \in Reqs : RequestRuns(r)

(***************************************************************************)
(* Claims                                                                   *)
(***************************************************************************)

\* C1: two or more extract requests for an identical query that all miss the
\* cache and run concurrently leave, once all have finished with a result,
\* exactly one telegram_cache row for that query, and every one of their
\* responses carries the file_id / file_unique_id of that single row.
C1_ConcurrentMissesOneRecord ==
    \A r1, r2 \in Reqs :
        ( /\ r1 # r2
          /\ req[r1].pc = "done" /\ req[r2].pc = "done"
          /\ req[r1].query = req[r2].query
          /\ ~req[r1].force_download /\ ~req[r2].force_download
          /\ r1 \notin req[r2].before /\ r2 \notin req[r1].before
          /\ req[r1].extraction # None /\ req[r2].extraction # None
          /\ req[r1].resp.status = "success" /\ req[r2].resp.status = "success" )
        => LET stored == {i \in DOMAIN cache : cache[i].original_query = req[r1].query}
           IN  /\ Cardinality(stored) = 1
               /\ \A i \in stored, r \in {r1, r2} :
                     /\ req[r].resp.file_id = cache[i].file_id
                     /\ req[r].resp.file_unique_id = cache[i].file_unique_id

C3_SecondCallCached ==
    \A r1, r2 \in Reqs :
        ( /\ req[r1].pc = "done" /\ req[r2].pc = "done"
          /\ r1 \in req[r2].before
          /\ req[r1].query = req[r2].query
          /\ ~req[r1].force_download /\ ~req[r2].force_download
          /\ req[r1].resp.status = "success" /\ req[r2].resp.status = "success" )
        => /\ req[r2].resp.cached
           /\ req[r2].search_result # None
           /\ req[r2].resp.access_count = req[r2].search_result.cache_entry.access_count + 1

\* C4: when the match cascade finds a record and force_download is false, the
\* request returns a success result with cached=true carrying that match's tier
\* and confidence; on that path neither the Extractor nor the Blob Store is
\* invoked, and no row is inserted or deleted.
C4_HitServedFromCache ==
    /\ [] ( \A r \in Reqs :
              req[r].search_result # None =>
                 /\ ~req[r].force_download
                 /\ req[r].extraction = None
                 /\ req[r].upload_result = None
                 /\ req[r].pc \in {"hit", "done"}
                 /\ req[r].pc = "done" =>
                       /\ req[r].resp.status = "success"
                       /\ req[r].resp.cached
                       /\ req[r].resp.match_type = req[r].search_result.match_type
                       /\ req[r].resp.confidence = req[r].search_result.confidence
                       /\ req[r].resp.row = req[r].search_result.cache_entry.id )
    /\ [][ \A r \in Reqs :
              (req'[r] # req[r] /\ req'[r].search_result # None) =>
                 /\ uploads' = uploads
                 /\ tmp' = tmp
                 /\ Len(cache') = Len(cache)
                 /\ \A i \in DOMAIN cache :
                       /\ cache'[i].id = cache[i].id
                       /\ cache'[i].query_hash = cache[i].query_hash ]_vars

\* C4 witness: a request without force_download was answered from the cache.
C4_Witness ==
    \E r \in Reqs :
        /\ req[r].pc = "done"
        /\ ~req[r].force_download
        /\ req[r].search_result # None
        /\ req[r].resp.status = "success"
        /\ req[r].resp.cached

\* C5: from a store in which no row matches q, an extract request for which the
\* Extractor and the Blob Store succeed ends with exactly one stored row whose
\* query_hash is generate_query_hash(q), and a following identical request is
\* answered with cached=true and match tier exact.
C5_MissRegistersFingerprint ==
    \A r1 \in Reqs :
        ( /\ req[r1].pc = "done"
          /\ ~req[r1].force_download
          /\ req[r1].search_result = None
          /\ req[r1].resp.status = "success" )
        => /\ Cardinality({i \in DOMAIN cache :
                  cache[i].query_hash = generate_query_hash(req[r1].query)}) = 1
           /\ \A r2 \in Reqs :
                 ( /\ req[r2].pc = "done"
                   /\ r1 \in req[r2].before
                   /\ req[r2].query = req[r1].query
                   /\ ~req[r2].force_download )
                 => /\ req[r2].resp.status = "success"
                    /\ req[r2].resp.cached
                    /\ req[r2].resp.match_type = "exact"

\* C6: comprehensive_search tries exact, high_similarity, keyword and
\* low_similarity in this order and answers with the first tier that yields a
\* candidate: a row with the query's fingerprint is returned whatever the
\* similarity of other rows, and a low_similarity result is returned only when
\* the three earlier tiers yield nothing.
C6_CascadeOrder ==
    search_out.status = "success" =>
        LET query  == search_out.query
            rows   == search_out.rows
            result == search_out.result
            sim(i) == ratio(sanitize_query(query), sanitize_query(rows[i].original_query))
            shared(i) == Range(extract_keywords(query))
                            \cap Range(extract_keywords(rows[i].original_query))
            exact   == {i \in DOMAIN rows : rows[i].query_hash = generate_query_hash(query)}
            high    == {i \in DOMAIN rows : FracGeq(sim(i), Frac(9, 10))}
            keyword == {i \in DOMAIN rows : /\ Len(extract_keywords(query)) >= 2
                                            /\ Cardinality(shared(i)) >= 2}
            low     == {i \in DOMAIN rows : FracGeq(sim(i), Frac(7, 10))}
        IN  /\ exact # {} =>
                 result.match_type = "exact" /\ result.cache_entry.id \in exact
            /\ (exact = {} /\ high # {}) =>
                 result.match_type = "high_similarity" /\ result.cache_entry.id \in high
            /\ (exact = {} /\ high = {} /\ keyword # {}) =>
                 result.match_type = "keyword" /\ result.cache_entry.id \in keyword
            /\ (exact = {} /\ high = {} /\ keyword = {} /\ low # {}) =>
                 result.match_type = "low_similarity" /\ result.cache_entry.id \in low
            /\ result.match_type = "low_similarity" =>
                 exact = {} /\ high = {} /\ keyword = {}
            /\ (exact = {} /\ low = {} /\ keyword = {}) => result = None

\* C6 witness: the search answered with the exact row while a different row of
\* the table has similarity 0.95 to the query.
C6_Witness ==
    /\ search_out.status = "success"
    /\ search_out.result.match_type = "exact"
    /\ \E i \in DOMAIN search_out.rows :
          /\ i # search_out.result.cache_entry.id
          /\ FracEq(ratio(sanitize_query(search_out.query),
                          sanitize_query(search_out.rows[i].original_query)),
                    Frac(95, 100))

\* C7: a query that is an 11-character video identifier, when some stored row
\* has it as youtube_id, is answered with that row as an exact-tier hit with
\* confidence 1.0, whatever the row's original_query is.
C7_VideoIdShortcut ==
    ( /\ search_out.status = "success"
      /\ Len(search_out.query) = 11
      /\ \A k \in DOMAIN search_out.query : IsAlnum(search_out.query[k])
      /\ \E i \in DOMAIN search_out.rows :
            search_out.rows[i].youtube_id = search_out.query )
    => /\ search_out.result.match_type = "exact"
       /\ FracEq(search_out.result.confidence, Frac(1, 1))
       /\ search_out.result.cache_entry.youtube_id = search_out.query

\* C8: every stored row's query_hash is generate_query_hash of its own
\* original_query.
C8_HashOfNormalizedQuery ==
    \A i \in DOMAIN cache :
        cache[i].query_hash = generate_query_hash(cache[i].original_query)

\* C9: for every query the request handler accepts (validate_query true),
\* sanitize_query returns a non-empty text, and when the stop-word filter
\* removes every word the text before the filter is returned.
C9_NormalizedNeverEmpty ==
    \A r \in Reqs :
        (req[r].pc # "idle" /\ validate_query(req[r].query)) =>
            LET prefilter == Strip(Lower(CollapseSpaces(SubSpecial(req[r].query))))
            IN  /\ sanitize_query(req[r].query) # <<>>
                /\ RemoveStopWords(Split(prefilter)) = <<>> =>
                      sanitize_query(req[r].query) = prefilter

\* C10: a row with similarity exactly 0.9 to the normalized query is accepted at
\* the high_similarity tier; a row with similarity below 0.9 is never returned
\* as high_similarity, and when no row reaches 0.9 the answer comes from the
\* keyword tier and, failing that, from the 0.7 tier.
C10_HighThresholdBoundary ==
    search_out.status = "success" =>
        LET query  == search_out.query
            rows   == search_out.rows
            result == search_out.result
            sim(i) == ratio(sanitize_query(query), sanitize_query(rows[i].original_query))
            exact  == {i \in DOMAIN rows : rows[i].query_hash = generate_query_hash(query)}
            keyword == match_by_keywords(query, 2, rows)
        IN  /\ (exact = {} /\ \E i \in DOMAIN rows : FracEq(sim(i), Frac(9, 10))) =>
                 /\ result.match_type = "high_similarity"
                 /\ FracGeq(result.confidence, Frac(9, 10))
            /\ result.match_type = "high_similarity" =>
                 /\ FracGeq(sim(result.cache_entry.id), Frac(9, 10))
                 /\ FracEq(result.confidence, sim(result.cache_entry.id))
            /\ (exact = {} /\ \A i \in DOMAIN rows : ~FracGeq(sim(i), Frac(9, 10))) =>
                 /\ result.match_type \in {"keyword", "low_similarity", "None"}
                 /\ keyword # <<>> => result.match_type = "keyword"
                 /\ (keyword = <<>> /\ \E i \in DOMAIN rows : FracGeq(sim(i), Frac(7, 10))) =>
                       result.match_type = "low_similarity"

\* C10 witness: a search was answered at the high_similarity tier by a row whose
\* similarity to the query is exactly 0.9.
C10_Witness ==
    /\ search_out.status = "success"
    /\ search_out.result.match_type = "high_similarity"
    /\ FracEq(search_out.result.confidence, Frac(9, 10))
    /\ FracEq(ratio(sanitize_query(search_out.query),
                    sanitize_query(search_out.result.cache_entry.original_query)),
              Frac(9, 10))

\* C11: when a similarity tier (high_similarity or low_similarity) returns a
\* row, no stored row has a greater similarity to the normalized query, and the
\* reported confidence equals the similarity of the returned row.
C11_SimilarityTierReturnsMaximum ==
    ( /\ search_out.status = "success"
      /\ search_out.result.match_type \in {"high_similarity", "low_similarity"} )
    => LET rows   == search_out.rows
           result == search_out.result
           sim(i) == ratio(sanitize_query(search_out.query),
                           sanitize_query(rows[i].original_query))
       IN  /\ \A i \in DOMAIN rows : FracGeq(sim(result.cache_entry.id), sim(i))
           /\ FracEq(result.confidence, sim(result.cache_entry.id))

\* C11 witness: a similarity tier returned the second row of the table, whose
\* similarity is greater than that of the first row, which also passes the
\* tier's threshold.
C11_Witness ==
    /\ search_out.status = "success"
    /\ search_out.result.match_type = "high_similarity"
    /\ search_out.result.cache_entry.id = 2
    /\ FracEq(search_out.result.confidence, Frac(95, 100))
    /\ FracEq(ratio(sanitize_query(search_out.query),
                    sanitize_query(search_out.rows[1].original_query)),
              Frac(9, 10))

\* C12: the keyword tier answers only when the query has at least 2 keywords
\* and shares at least 2 of them with the returned row; the returned row has
\* the highest ratio, and the reported confidence is the number of shared
\* keywords divided by the number of distinct keywords of the query.
C12_KeywordRatioOverKeywordSet ==
    ( /\ search_out.status = "success"
      /\ search_out.result.match_type = "keyword" )
    => LET rows   == search_out.rows
           result == search_out.result
           query_keywords == Range(extract_keywords(search_out.query))
           shared(i) == query_keywords \cap Range(extract_keywords(rows[i].original_query))
           best   == result.cache_entry.id
       IN  /\ Cardinality(query_keywords) >= 2
           /\ Cardinality(shared(best)) >= 2
           /\ \A i \in DOMAIN rows : Cardinality(shared(best)) >= Cardinality(shared(i))
           /\ FracEq(result.confidence,
                     Frac(Cardinality(shared(best)), Cardinality(query_keywords)))

\* C13: when two or more rows tie for the top score of the tier that answers,
\* the row created last among them is returned (rows are numbered in creation
\* order), and the same lookup on the same table gives the same row.
C13_TieGoesToNewestRow ==
    ( /\ search_out.status = "success"
      /\ search_out.result.match_type \in {"high_similarity", "keyword", "low_similarity"} )
    => LET rows   == search_out.rows
           result == search_out.result
           query  == search_out.query
           sim(i) == ratio(sanitize_query(query), sanitize_query(rows[i].original_query))
           shared(i) == Cardinality(Range(extract_keywords(query))
                            \cap Range(extract_keywords(rows[i].original_query)))
           best   == result.cache_entry.id
           tied   == IF result.match_type = "keyword"
                     THEN {i \in DOMAIN rows : shared(i) = shared(best)}
                     ELSE {i \in DOMAIN rows : FracEq(sim(i), sim(best))}
       IN  /\ \A i \in tied : i <= best
           /\ comprehensive_search(query, rows) = result

\* C15: every lookup through the cascade that returns a hit, the search
\* endpoint included, has incremented the matched row's access_count when the
\* result is returned.
C15_EveryHitCountsAccess ==
    ( /\ search_out.status = "success"
      /\ search_out.found )
    => LET id == search_out.result.cache_entry.id
       IN  cache[id].access_count >= search_out.rows[id].access_count + 1

\* C14: after a query q1 with at least two keywords was registered by a miss, a
\* later query q2 made of the same words in a different order is answered from
\* the cache, by tier high_similarity or keyword when the answer is q1's row
\* and never by tier exact on that row, and the request creates no record.
C14_ReorderedQueryServedFromCache ==
    \A r1, r2 \in Reqs :
        ( /\ req[r1].pc = "done" /\ req[r2].pc = "done"
          /\ r1 \in req[r2].before
          /\ ~req[r1].force_download /\ ~req[r2].force_download
          /\ req[r1].search_result = None
          /\ req[r1].resp.status = "success"
          /\ \E i \in DOMAIN cache : cache[i].original_query = req[r1].query
          /\ Cardinality(Range(extract_keywords(req[r1].query))) >= 2
          /\ Range(Split(sanitize_query(req[r1].query)))
                = Range(Split(sanitize_query(req[r2].query)))
          /\ sanitize_query(req[r1].query) # sanitize_query(req[r2].query) )
        => /\ req[r2].resp.status = "success"
           /\ req[r2].resp.cached
           /\ req[r2].search_result # None
           /\ req[r2].search_result.cache_entry.original_query = req[r1].query
                 => req[r2].resp.match_type \in {"high_similarity", "keyword"}
           /\ req[r2].extraction = None
           /\ req[r2].upload_result = None

\* C14 witness: 'foo bar' was registered by a miss and a later 'bar foo' was
\* answered with that row, the only row of the table.
C14_Witness ==
    \E r1, r2 \in Reqs :
        /\ req[r1].pc = "done" /\ req[r2].pc = "done"
        /\ r1 \in req[r2].before
        /\ req[r1].query = QFooBar /\ req[r2].query = QBarFoo
        /\ ~req[r1].force_download /\ ~req[r2].force_download
        /\ req[r1].search_result = None /\ req[r1].resp.status = "success"
        /\ Len(cache) = 1 /\ cache[1].original_query = QFooBar
        /\ req[r2].resp.status = "success" /\ req[r2].resp.cached
        /\ req[r2].resp.match_type = "keyword"
        /\ req[r2].resp.row = 1

\* C16: once a row exists, no step removes it or changes any of its fields
\* other than access_count (last_accessed is set together with it); this
\* includes force_download requests for the row's query.
C16_RowFieldsKeepCreationValues ==
    [][ \A i \in DOMAIN cache :
           /\ i \in DOMAIN cache'
           /\ [cache'[i] EXCEPT !.access_count = 0]
                 = [cache[i] EXCEPT !.access_count = 0] ]_vars

\* C16 witness: a force_download request for a query that already has a row
\* finished with its own upload, and the row still refers to another file.
C16_Witness ==
    \E r \in Reqs :
        /\ req[r].pc = "done"
        /\ req[r].force_download
        /\ req[r].resp.status = "success"
        /\ req[r].upload_result # None
        /\ req[r].upload_result.uploaded
        /\ \E i \in DOMAIN cache :
              /\ cache[i].query_hash = md5(Lower(req[r].query))
              /\ cache[i].file_id # req[r].upload_result.file_id

\* C17: a request for which the Extractor returns nothing, or whose upload
\* fails after a successful extraction, ends with an error; the number of rows
\* changes only in the step in which a request whose extraction and upload
\* both succeeded registers its row, and no step of a request that ends with
\* an error adds or removes a row.
C17_RecordOnlyAfterExtractAndUpload ==
    /\ [] ( \A r \in Reqs :
              ( /\ req[r].pc = "done"
                /\ req[r].search_result = None
                /\ req[r].extraction = None \/ req[r].upload_result = None )
              => req[r].resp.status = "error" )
    /\ [][ /\ Len(cache') # Len(cache) =>
                 \E r \in Reqs :
                    /\ req'[r] # req[r]
                    /\ req[r].extraction # None
                    /\ req[r].upload_result # None
                    /\ req[r].upload_result.uploaded
                    /\ req'[r].resp.status = "success"
           /\ \A r \in Reqs :
                 (req'[r] # req[r] /\ req'[r].pc = "done" /\ req'[r].resp.status = "error")
                    => Len(cache') = Len(cache) ]_vars

\* C17 witness: one request ended with the Extractor's 404, another one ended
\* with an error after its extraction had succeeded and its upload had failed.
C17_Witness ==
    \E r1, r2 \in Reqs :
        /\ req[r1].pc = "done" /\ req[r1].extraction = None
        /\ req[r1].resp.status = "error" /\ req[r1].resp.code = 404
        /\ req[r2].pc = "done" /\ req[r2].extraction # None
        /\ req[r2].upload_result = None
        /\ req[r2].resp.status = "error" /\ req[r2].resp.code = 500

\* C18: a request whose upload succeeded ends with a success result also when
\* the insert of its row met an existing row with the same query_hash, and the
\* table then holds exactly one row with that query_hash.
C18_DuplicateInsertIsNotAnError ==
    /\ \A r \in Reqs :
          ( /\ req[r].pc = "done"
            /\ req[r].upload_result # None
            /\ req[r].upload_result.uploaded
            /\ req[r].store_error = "none" )
          => /\ req[r].resp.status = "success"
             /\ Cardinality({i \in DOMAIN cache :
                    cache[i].query_hash = md5(Lower(req[r].query))}) = 1
    /\ \A i, j \in DOMAIN cache : cache[i].query_hash = cache[j].query_hash => i = j

\* C18 witness: two requests that both missed uploaded the same query; both
\* ended with success and the single row refers to the file of only one.
C18_Witness ==
    \E r1, r2 \in Reqs :
        /\ r1 # r2
        /\ req[r1].pc = "done" /\ req[r2].pc = "done"
        /\ ~req[r1].force_download /\ ~req[r2].force_download
        /\ req[r1].query = req[r2].query
        /\ req[r1].upload_result # None /\ req[r1].upload_result.uploaded
        /\ req[r2].upload_result # None /\ req[r2].upload_result.uploaded
        /\ req[r1].resp.status = "success" /\ req[r2].resp.status = "success"
        /\ \E i \in DOMAIN cache :
              /\ cache[i].query_hash = md5(Lower(req[r1].query))
              /\ cache[i].file_id = req[r1].upload_result.file_id
              /\ cache[i].file_id # req[r2].upload_result.file_id

C20_FailedReadIsAMiss ==
    \A r \in Reqs :
        (req[r].pc = "done" /\ req[r].store_error = "read")
            => \/ req[r].resp.status = "success"
               \/ req[r].resp.code = 404 /\ req[r].extraction = None
               \/ req[r].extraction # None /\ req[r].upload_result = None

C22_RequestStateMachine ==
    /\ [][ \A r \in Reqs :
              Phase(req[r].pc) # Phase(req'[r].pc) =>
                 \/ Phase(req[r].pc) = "Start" /\ Phase(req'[r].pc) = "Matching"
                 \/ /\ Phase(req[r].pc) = "Matching" /\ Phase(req'[r].pc) = "Done"
                    /\ req'[r].search_result # None
                    /\ req'[r].resp.status = "success"
                 \/ Phase(req[r].pc) = "Matching" /\ Phase(req'[r].pc) = "Acquiring"
                 \/ /\ Phase(req[r].pc) = "Acquiring" /\ Phase(req'[r].pc) = "Done"
                    /\ req'[r].resp.status = "error"
                 \/ Phase(req[r].pc) = "Acquiring" /\ Phase(req'[r].pc) = "Persisting"
                 \/ Phase(req[r].pc) = "Persisting" /\ Phase(req'[r].pc) = "Done" ]_vars
    /\ \A r \in Reqs : (req[r].pc # "idle") ~> (req[r].pc = "done")

\* C23: a request whose caller's deadline elapsed while it was acquiring ends
\* with a Timeout error and never registers a row; when the deadline elapsed
\* during the extraction, the request does not upload either.
C23_DeadlineStopsAcquisition ==
    \A r \in Reqs :
        req[r].deadline # "open" =>
            /\ req[r].pc # "cache"
            /\ req[r].deadline = "extract" =>
                  /\ req[r].pc \in {"extract", "done"}
                  /\ req[r].upload_result = None
            /\ req[r].pc = "done" =>
                  /\ req[r].resp.status = "error"
                  /\ req[r].resp.error = "Timeout"

\* C24: the janitor sweeps on every cleanup interval and removes each row
\* older than MAX_CACHE_AGE, so no stored row is older than the retention
\* window by more than one cleanup interval.
C24_ExpiredRowsAreSwept ==
    \A i \in DOMAIN cache :
        now - cache[i].created_at <= MAX_CACHE_AGE + CACHE_CLEANUP_INTERVAL

\* C25: when the row a request's lookup has read is deleted before the request
\* updates its access statistics, the update is a silent no-op and the request
\* completes without an error result.
C25_DeletedRowAccessIsNoOp ==
    \A r \in Reqs :
        ( /\ req[r].pc = "done"
          /\ req[r].search_result # None
          /\ req[r].search_result.cache_entry.id \notin DOMAIN cache )
        => req[r].resp.status # "error"

\* C26: a request waiting on the Extractor or on the upload holds no lock on
\* the store: every lookup step and every cached answer of another request
\* taken meanwhile goes through as it would alone (the exact tier finds the
\* stored row, nothing raises, the hit is answered from the cache), so that
\* the other request is answered before the acquisition returns.
C26_AcquisitionLocksNothing ==
    [][ \A s \in Reqs :
          ( /\ \E r \in Reqs \ {s} :
                  req[r].pc \in {"extract", "upload"} /\ req'[r] = req[r]
            /\ req[s].pc \in {"tier1", "tier2", "tier3", "tier4", "hit"}
            /\ req'[s] # req[s] )
          => /\ req'[s].store_error = "none"
             /\ req[s].pc = "tier1" =>
                    req'[s].pc = IF ExactTier(req[s].query, cache) # None
                                 THEN "hit" ELSE "tier2"
             /\ req[s].pc = "hit" =>
                    /\ req'[s].pc = "done"
                    /\ req'[s].resp.status = "success"
                    /\ req'[s].resp.cached ]_vars

\* request 2 was started after the forced request 1, and is answered from the
\* cache while request 1 still waits for its extraction or upload
C26_Witness ==
    /\ req[1].force_download
    /\ req[1].pc \in {"extract", "upload"}
    /\ req[2].pc = "done"
    /\ ~req[2].force_download
    /\ req[2].resp.status = "success"
    /\ req[2].resp.cached

\* C27: for any query and any table, the empty one and queries of fewer than
\* two keywords included, a lookup for which no tier has a candidate (no row
\* with the query's hash, none with similarity 0.7 or more, none sharing two
\* keywords) returns None and raises nothing.
C27_NoCandidateIsNone ==
    LET rows     == search_out.rows
        query    == search_out.query
        keywords == Range(extract_keywords(query))
        sim(i)   == ratio(sanitize_query(query), sanitize_query(rows[i].original_query))
        shared(i) == keywords \cap Range(extract_keywords(rows[i].original_query))
    IN  ( /\ search_out.status # "none"
          /\ validate_query(query)
          /\ \A i \in DOMAIN rows :
                /\ rows[i].query_hash # generate_query_hash(query)
                /\ ~FracGeq(sim(i), Frac(7, 10))
                /\ Cardinality(shared(i)) < 2 )
        => /\ search_out.status = "success"
           /\ search_out.result = None
           /\ ~search_out.found

\* C27 witness: a query without keywords was looked up in a table that holds
\* rows, none of them a candidate, and the lookup returned None.
C27_Witness ==
    /\ search_out.status = "success"
    /\ search_out.rows # <<>>
    /\ extract_keywords(search_out.query) = <<>>
    /\ search_out.result = None

\* C28: every match result has a confidence in [0,1]: exactly 1.0 for exact,
\* at least 0.9 for high_similarity, at least 0.7 for low_similarity, and in
\* (0,1] for keyword.
C28_ConfidenceRanges ==
    ( search_out.status = "success" /\ search_out.result # None )
    => LET result     == search_out.result
           confidence == result.confidence
       IN  /\ result.match_type \in {"exact", "high_similarity", "keyword", "low_similarity"}
           /\ FracGeq(confidence, Frac(0, 1))
           /\ FracGeq(Frac(1, 1), confidence)
           /\ result.match_type = "exact" => FracEq(confidence, Frac(1, 1))
           /\ result.match_type = "high_similarity" => FracGeq(confidence, Frac(9, 10))
           /\ result.match_type = "low_similarity" => FracGeq(confidence, Frac(7, 10))
           /\ result.match_type = "keyword" => FracGt(confidence, Frac(0, 1))

\* C28 witness: the keyword tier answered with a confidence strictly between
\* 0 and 1 (two of the three keywords of the query are shared).
C28_Witness ==
    /\ search_out.status = "success"
    /\ search_out.result.match_type = "keyword"
    /\ FracEq(search_out.result.confidence, Frac(2, 3))

\* C29: the similarity of the fuzzy tiers is symmetric, is 1.0 for identical
\* strings and 0.0 for strings that share no character.
C29_SimilaritySymmetric ==
    search_out.status = "success"
    => \A i \in DOMAIN search_out.rows :
          LET a == sanitize_query(search_out.query)
              b == sanitize_query(search_out.rows[i].original_query)
          IN  /\ FracEq(ratio(a, b), ratio(b, a))
              /\ a = b => FracEq(ratio(a, b), Frac(1, 1))
              /\ Range(a) \cap Range(b) = {} /\ a # b => FracEq(ratio(a, b), Frac(0, 1))

\* C30: in every reachable state no two rows have the same query_hash, however
\* the inserts of concurrent misses, of force_download requests and of the two
\* storages interleave; a step changes the table by at most one appended row,
\* and the insert of a request whose query_hash is taken leaves the table as
\* it was, the existing row in place.
C30_QueryHashUnique ==
    /\ [](\A i, j \in DOMAIN cache :
             i # j => cache[i].query_hash # cache[j].query_hash)
    /\ [][ /\ Len(cache') \in {Len(cache), Len(cache) + 1}
           /\ \A i \in DOMAIN cache :
                 /\ cache'[i].query_hash = cache[i].query_hash
                 /\ cache'[i].file_id = cache[i].file_id
                 /\ cache'[i].original_query = cache[i].original_query
           /\ \A r \in Reqs :
                 ( /\ req[r].pc = "cache" /\ req'[r].pc = "done"
                   /\ \E i \in DOMAIN cache :
                         cache[i].query_hash = md5(Lower(req[r].extraction.query)) )
                 => cache' = cache ]_vars

\* C30 witness: a force_download request uploaded a query whose row another
\* path had registered; it is done, and the table holds that one row, which
\* refers to another file.
C30_Witness ==
    \E r \in Reqs :
        /\ req[r].pc = "done"
        /\ req[r].force_download
        /\ req[r].upload_result # None /\ req[r].upload_result.uploaded
        /\ \E i \in DOMAIN cache :
              /\ cache[i].query_hash = md5(Lower(req[r].query))
              /\ cache[i].file_id # req[r].upload_result.file_id

\* C31: access_count of a row never decreases, and every cache-hit request
\* that completes on a row makes it grow by exactly one, in any interleaving
\* of the reads and commits of the requests, so that N completed hits have
\* added exactly N.
C31_NoAccessIncrementLost ==
    [][ /\ \A i \in DOMAIN cache :
              cache'[i].access_count >= cache[i].access_count
        /\ \A r \in Reqs :
              ( /\ req[r].pc = "hit" /\ req'[r].pc = "done"
                /\ req'[r].resp.status = "success" )
              => LET i == req[r].search_result.cache_entry.id
                 IN  cache'[i].access_count = cache[i].access_count + 1 ]_vars

\* C32: a lookup that returns at the low_similarity tier reports a confidence
\* in [0.7, 0.9), and a lookup returns at the keyword or low_similarity tier
\* only when no stored row has the query's hash, also when other requests
\* insert rows between the scans of the lookup.
C32_LateTiersOnlyWithoutExactRow ==
    [][ \A r \in Reqs :
          ( /\ req[r].pc \in {"tier3", "tier4"}
            /\ req'[r].pc = "hit" )
          => LET result == req'[r].search_result
             IN  /\ result.match_type = "low_similarity" =>
                       /\ FracGeq(result.confidence, Frac(7, 10))
                       /\ ~FracGeq(result.confidence, Frac(9, 10))
                 /\ \A i \in DOMAIN cache :
                       cache[i].query_hash # generate_query_hash(req[r].query) ]_vars

\* C33: the HTTP session a request opens on entering the shared extractor stays
\* open and is the one the request uses until its extraction has finished, and
\* it is closed exactly once when the request leaves, whatever other requests
\* entering or leaving the extractor do.
C33_OwnSessionOpenThenClosedOnce ==
    \A r \in Reqs :
        LET clients == extractor.clients
            own     == {c \in DOMAIN clients : clients[c].owner = r}
        IN  /\ req[r].pc = "session" =>
                  \A c \in own : extractor.session = c /\ clients[c].closes = 0
            /\ req[r].pc = "aexit" =>
                  /\ extractor.used[r] \in own
                  /\ r \notin extractor.used_closed
                  /\ \A c \in own : clients[c].closes = 0
            /\ req[r].pc \in {"upload", "cache", "done"} =>
                  \A c \in own : clients[c].closes = 1

\* C35: between two consecutive resets of the key's window require_api_key
\* admits at most daily_limit requests and the key's count never exceeds
\* daily_limit, under any interleaving of concurrent requests with the key;
\* the first request admitted after reset_at sets count to 1 and moves
\* reset_at one day ahead.
C35_QuotaNeverExceeded ==
    /\ [](api.admitted <= daily_limit /\ api.key.count <= daily_limit)
    /\ [][ \A c \in Reqs :
              ( /\ api.callers[c].pc = "admitted" /\ api'.callers[c].pc = "out"
                /\ now > api.key.reset_at )
              => /\ api'.key.count = 1
                 /\ api'.key.reset_at = now + OneDay ]_vars

\* C34: a request with force_download=true runs no lookup and goes to the
\* Extractor also when a matching row is stored; when a row with the hash of
\* its query exists at the time it answers, the request leaves the table as it
\* is (the row neither replaced nor doubled) and answers with the file_id of
\* that stored row.
C34_ForcedRequestReturnsStoredFile ==
    /\ [](\A r \in Reqs :
             (req[r].force_download /\ req[r].pc # "done")
                => /\ req[r].pc \in {"extract", "upload", "cache"}
                   /\ req[r].search_result = None)
    /\ [][ \A r \in Reqs :
              ( /\ req[r].force_download
                /\ req[r].pc \in {"upload", "cache"} /\ req'[r].pc = "done"
                /\ req'[r].resp.status = "success" )
              => \A i \in DOMAIN cache :
                    cache[i].query_hash = md5(Lower(req[r].query))
                    => /\ cache' = cache
                       /\ req'[r].upload_result.uploaded
                       /\ req'[r].resp.file_id = cache[i].file_id ]_vars

C37_SyncSearchOrderAndBestFuzzy ==
    search_out.status = "sync"
    => LET rows     == search_out.rows
           query    == search_out.query
           cached   == search_out.result
           exact    == {i \in DOMAIN rows : rows[i].query_hash = md5(Lower(query))}
           by_id    == IF Len(query) = 11 /\ \A k \in DOMAIN query : IsAlnum(query[k])
                       THEN {i \in DOMAIN rows : rows[i].youtube_id = query} ELSE {}
           video_id == _extract_video_id(query)
           by_url   == IF video_id # None /\ video_id # <<>>
                       THEN {i \in DOMAIN rows : rows[i].youtube_id = video_id} ELSE {}
           t(i)     == ratio(Lower(query), Lower(rows[i].title))
           o(i)     == ratio(Lower(query), Lower(rows[i].original_query))
           fuzzy    == {i \in DOMAIN rows : FracGt(t(i), Frac(6, 10)) \/ FracGt(o(i), Frac(7, 10))}
           sim(i)   == IF FracGt(t(i), Frac(6, 10)) /\ (FracGeq(t(i), o(i)) \/ ~FracGt(o(i), Frac(7, 10)))
                       THEN t(i) ELSE o(i)
       IN  IF exact # {} THEN cached # None /\ cached.id \in exact
           ELSE IF by_id # {} THEN cached # None /\ cached.id \in by_id
           ELSE IF by_url # {} THEN cached # None /\ cached.id \in by_url
           ELSE IF fuzzy # {}
                THEN /\ cached # None /\ cached.id \in fuzzy
                     /\ \A i \in fuzzy : FracGeq(sim(cached.id), sim(i))
           ELSE cached = None

\* C38: registering media for a query that already has a row is idempotent: a
\* further _save_to_cache or store_media call for the same query, up to letter
\* case, adds no row and changes no field of the existing row, and store_media
\* returns the file_id of the existing row without copying the file again.
C38_RegisteringIsIdempotent ==
    /\ [](LET rows == search_out.rows
              same == {i \in DOMAIN rows :
                          Lower(rows[i].original_query) = Lower(search_out.query)}
          IN  (search_out.status = "stored" /\ same # {})
              => /\ search_out.result # None
                 /\ ~search_out.copy
                 /\ \A i \in same : search_out.result.file_id = rows[i].file_id)
    /\ [][ /\ \A i \in DOMAIN cache : i \in DOMAIN cache' /\ cache'[i] = cache[i]
           /\ Len(cache') <= Len(cache) + 1
           /\ Len(cache') > Len(cache) =>
                 \A i \in DOMAIN cache :
                    Lower(cache[i].original_query)
                       # Lower(cache'[Len(cache')].original_query) ]_vars

\* C38 witness: store_media was called for 'Hi' while the table held the row
\* that the sync storage had registered for 'hi'; it returned that row's
\* Telegram file_id and the table is as it was.
C38_Witness ==
    /\ search_out.status = "stored"
    /\ search_out.query = QHiUpper
    /\ \E i \in DOMAIN search_out.rows :
          /\ search_out.rows[i].original_query = QHi
          /\ search_out.rows[i].file_id >= 1
          /\ search_out.result.file_id = search_out.rows[i].file_id
    /\ cache = search_out.rows

\* C39: sanitize_query is idempotent and deterministic: for every query q,
\* sanitize_query(sanitize_query(q)) = sanitize_query(q), hence
\* generate_query_hash(sanitize_query(q)) = generate_query_hash(q), and two
\* calls with the same q give the same hash.
C39_SanitizeIdempotent ==
    search_out.query # NULL
    => LET q == search_out.query
       IN  /\ sanitize_query(sanitize_query(q)) = sanitize_query(q)
           /\ generate_query_hash(sanitize_query(q)) = generate_query_hash(q)

====
